---- MODULE Spec2Model ----
(***************************************************************************)
(* Heartbeat Monitor API (src/main.py): the session registry               *)
(* (SessionManager), the broadcast hub (ConnectionManager) and the         *)
(* per-connection dispatcher (websocket_endpoint), as one state machine.   *)
(*                                                                         *)
(* The server runs on one asyncio event loop: a handler runs without       *)
(* interruption between two awaits.  The awaits of websocket_endpoint are  *)
(* receive_text (line 216), the replies on the own connection (lines 229,  *)
(* 269, 293) and, inside ConnectionManager.broadcast, one send_text per    *)
(* observer (line 199).  After a reply nothing else happens before the     *)
(* next receive_text, so a reply is folded into the step of its handler;   *)
(* the broadcast is one step per observer, and other connections run       *)
(* between two of its sends.  The database session is synchronous (no      *)
(* await).                                                                 *)
(***************************************************************************)
EXTENDS Integers, Sequences, FiniteSets, TLC

\* ------------------------------------------------------------------ bounds
NConn    == 2     \* websocket connections the server ever accepts
MaxMsgs  == 3     \* messages the server receives, over all connections
MaxBeats == 30    \* heartbeats followed one by one in the life of one session

\* ------------------------------------------------------- program constants
DequeMaxLen   == 1000     \* deque(maxlen=1000) of bpm_values and ir_values
WaveEvery     == 10       \* beat_count % 10 == 0
WaveCap       == 500      \* len(waveform_samples) > 500
IrThreshold   == 50000    \* ir > 50000
SecondsPerDay == 86400    \* timedelta.seconds is the seconds part, below one day

DefaultDevice == "ESP32_001"   \* json_data.get("device_id", "ESP32_001")
EmptyDevice   == ""            \* a device_id the sender sets to the empty string
NoDevice      == "<None>"      \* device_id = None, before the first typed message

Conns == 1..NConn
Devs  == {DefaultDevice, EmptyDevice}

\* A JSON value of a "bpm" or "ir" field: a number, or a value of another
\* type (a string, null, a list), which Python cannot order against an int.
Num(n)  == [num |-> TRUE, v |-> n]
NonNum  == [num |-> FALSE, v |-> 0]
BpmVals == {Num(0), Num(60), NonNum}
IrVals  == {Num(60000), NonNum}
AcVals  == {7}

\* ----------------------------------------------------------------- helpers
\* sum(s) over a buffer, computed by halves (a buffer holds up to 1000
\* values).
FirstHalf(s)  == SubSeq(s, 1, Len(s) \div 2)
SecondHalf(s) == SubSeq(s, Len(s) \div 2 + 1, Len(s))

RECURSIVE SumSeq(_)
SumSeq(s) == IF s = <<>> THEN 0
             ELSE IF Len(s) = 1 THEN s[1].v
             ELSE SumSeq(FirstHalf(s)) + SumSeq(SecondHalf(s))

\* min(s) and max(s) of a non-empty buffer.
Values(s) == {s[i].v : i \in 1..Len(s)}
MinSeq(s) == CHOOSE m \in Values(s) : \A x \in Values(s) : m <= x
MaxSeq(s) == CHOOSE m \in Values(s) : \A x \in Values(s) : m >= x

\* sum(1 for x in s if x > t)
CountAbove(s, t) == Cardinality({i \in 1..Len(s) : s[i].v > t})

AllNum(s) == \A i \in 1..Len(s) : s[i].num

\* round(num / den, digits) for num >= 0, den > 0, as an integer number of
\* 10^-digits units (scale = 10^digits); Python rounds an exact half to even.
\* The quotient is taken before the scaling, so that the numbers stay small.
Round(num, den, scale) ==
    LET rest == (num % den) * scale
        q == (num \div den) * scale + rest \div den
        r == rest % den
    IN  IF 2 * r < den THEN q
        ELSE IF 2 * r > den THEN q + 1
        ELSE IF q % 2 = 0 THEN q ELSE q + 1

\* deque.append with maxlen: the oldest element is dropped on overflow.
DequeAppend(q, x) ==
    IF Len(q) >= DequeMaxLen THEN Append(Tail(q), x) ELSE Append(q, x)

\* list.remove(x) guarded by "x in list": the first occurrence is removed.
RECURSIVE ListRemove(_, _)
ListRemove(s, x) ==
    IF s = <<>> THEN <<>>
    ELSE IF s[1] = x THEN Tail(s)
    ELSE <<s[1]>> \o ListRemove(Tail(s), x)

InList(s, x) == \E i \in 1..Len(s) : s[i] = x

\* Variant of DictDel: the registry is cleared (dict.clear()).
DictClear(f, k) == [x \in {} |-> f[x]]

\* dict[key] = value and del dict[key] on the registry.
DictSet(f, k, val) == [x \in (DOMAIN f) \cup {k} |-> IF x = k THEN val ELSE f[x]]
DictDel(f, k)      == [x \in (DOMAIN f) \ {k} |-> f[x]]

\* Python truthiness of a device_id (a str or None).
Truthy(d) == d # NoDevice /\ d # EmptyDevice

\* ------------------------------------------------------------ SessionManager
\* The dict start_session stores for a device (lines 73-79).
NewSession(t) ==
    [start_time       |-> t,
     bpm_values       |-> <<>>,
     ir_values        |-> <<>>,
     beat_count       |-> 0,
     waveform_samples |-> <<>>]

\* Variant of start_session: a device that has a session keeps it.
start_session_keeping(sessions, d, t) ==
    IF d \in DOMAIN sessions THEN sessions ELSE DictSet(sessions, d, NewSession(t))

\* SessionManager.start_session: the entry of the device is overwritten.
start_session(sessions, d, t) == DictSet(sessions, d, NewSession(t))

\* Variant of SampleWaveform: the beats are counted from zero, so the first,
\* the eleventh, ... beat is sampled.
SampleWaveform_from_zero(s, bpm, ir, ac, t) ==
    IF (s.beat_count - 1) % WaveEvery = 0
    THEN LET sample == [beat_number |-> s.beat_count,
                        bpm         |-> Round(bpm.v, 1, 100),
                        ir          |-> ir,
                        ac          |-> ac,
                        timestamp   |-> t]
             w == Append(s.waveform_samples, sample)
         IN  [s EXCEPT !.waveform_samples =
                  IF Len(w) > WaveCap THEN Tail(w) ELSE w]
    ELSE s

\* The waveform sampling of add_beat (lines 96-108), on the session s whose
\* beat_count is already incremented.
SampleWaveform(s, bpm, ir, ac, t) ==
    IF s.beat_count % WaveEvery = 0
    THEN LET sample == [beat_number |-> s.beat_count,
                        bpm         |-> Round(bpm.v, 1, 100),
                        ir          |-> ir,
                        ac          |-> ac,
                        timestamp   |-> t]
             w == Append(s.waveform_samples, sample)
         IN  [s EXCEPT !.waveform_samples =
                  IF Len(w) > WaveCap THEN Tail(w) ELSE w]
    ELSE s

\* Variant of add_beat: the "not in active_sessions" test is missing and
\* every beat starts the session anew.
add_beat_restarting(sessions, d, bpm, ir, ac, t) ==
    LET started == start_session(sessions, d, t)
        s0 == started[d]
        s1 == IF bpm.v > 0
              THEN [s0 EXCEPT !.bpm_values = DequeAppend(@, bpm)] ELSE s0
        s2 == [s1 EXCEPT !.ir_values  = DequeAppend(@, ir),
                         !.beat_count = @ + 1]
    IN  IF ~bpm.num
        THEN [raised |-> TRUE,  sessions |-> started]
        ELSE [raised |-> FALSE,
              sessions |-> DictSet(started, d, SampleWaveform(s2, bpm, ir, ac, t))]

\* Variant of add_beat: a beat for a device without a session is rejected
\* with an error.
add_beat_needing_start(sessions, d, bpm, ir, ac, t) ==
    IF d \notin DOMAIN sessions
    THEN [raised |-> TRUE, sessions |-> sessions]
    ELSE LET s0 == sessions[d]
             s1 == IF bpm.v > 0
                   THEN [s0 EXCEPT !.bpm_values = DequeAppend(@, bpm)] ELSE s0
             s2 == [s1 EXCEPT !.ir_values  = DequeAppend(@, ir),
                              !.beat_count = @ + 1]
         IN  IF ~bpm.num
             THEN [raised |-> TRUE,  sessions |-> sessions]
             ELSE [raised |-> FALSE,
                   sessions |-> DictSet(sessions, d,
                                        SampleWaveform(s2, bpm, ir, ac, t))]

\* Variant of add_beat: the test is "bpm >= 0", a rate of 0 is admitted.
add_beat_admitting_zero(sessions, d, bpm, ir, ac, t) ==
    LET started == IF d \notin DOMAIN sessions
                   THEN start_session(sessions, d, t) ELSE sessions
        s0 == started[d]
        s1 == IF bpm.v >= 0
              THEN [s0 EXCEPT !.bpm_values = DequeAppend(@, bpm)] ELSE s0
        s2 == [s1 EXCEPT !.ir_values  = DequeAppend(@, ir),
                         !.beat_count = @ + 1]
    IN  IF ~bpm.num
        THEN [raised |-> TRUE,  sessions |-> started]
        ELSE [raised |-> FALSE,
              sessions |-> DictSet(started, d, SampleWaveform(s2, bpm, ir, ac, t))]

\* Variant of add_beat: the beat is stored but beat_count is not incremented.
add_beat_uncounted(sessions, d, bpm, ir, ac, t) ==
    LET started == IF d \notin DOMAIN sessions
                   THEN start_session(sessions, d, t) ELSE sessions
        s0 == started[d]
        s1 == IF bpm.v > 0
              THEN [s0 EXCEPT !.bpm_values = DequeAppend(@, bpm)] ELSE s0
        s2 == [s1 EXCEPT !.ir_values  = DequeAppend(@, ir)]
    IN  IF ~bpm.num
        THEN [raised |-> TRUE,  sessions |-> started]
        ELSE [raised |-> FALSE, sessions |-> DictSet(started, d, s2)]

\* SessionManager.add_beat.  "bpm > 0" raises TypeError when bpm is not a
\* number; by then the missing session has already been started.  ir is
\* only stored, whatever its type.
add_beat(sessions, d, bpm, ir, ac, t) ==
    LET started == IF d \notin DOMAIN sessions
                   THEN start_session(sessions, d, t) ELSE sessions
        s0 == started[d]
        s1 == IF bpm.v > 0
              THEN [s0 EXCEPT !.bpm_values = DequeAppend(@, bpm)] ELSE s0
        s2 == [s1 EXCEPT !.ir_values  = DequeAppend(@, ir),
                         !.beat_count = @ + 1]
    IN  IF ~bpm.num
        THEN [raised |-> TRUE,  sessions |-> started]
        ELSE [raised |-> FALSE,
              sessions |-> DictSet(started, d, SampleWaveform(s2, bpm, ir, ac, t))]

\* (datetime.utcnow() - start_time).seconds
Elapsed(s, t) == (t - s.start_time) % SecondsPerDay

\* SessionManager.get_session_info: <<>> is None, <<info>> the dict.  The
\* rates are in tenths (round(x, 1)).
get_session_info(sessions, d, t) ==
    IF d \notin DOMAIN sessions THEN <<>>
    ELSE LET s == sessions[d]
             bpm_list == s.bpm_values
         IN  IF bpm_list = <<>>
             THEN << [active |-> TRUE, duration |-> Elapsed(s, t),
                      beats |-> s.beat_count, has_stats |-> FALSE,
                      avg_bpm |-> 0, min_bpm |-> 0, max_bpm |-> 0] >>
             ELSE << [active |-> TRUE, duration |-> Elapsed(s, t),
                      beats |-> s.beat_count, has_stats |-> TRUE,
                      avg_bpm |-> Round(SumSeq(bpm_list), Len(bpm_list), 10),
                      min_bpm |-> Round(MinSeq(bpm_list), 1, 10),
                      max_bpm |-> Round(MaxSeq(bpm_list), 1, 10)] >>

\* Variant of Summary: total_beats counts the amplitudes in the window.
Summary_windowed(s, d, t) ==
    LET bpm_list == s.bpm_values
        ir_list  == s.ir_values
        good_signal_count == CountAbove(ir_list, IrThreshold)
    IN  [device_id        |-> d,
         session_start    |-> s.start_time,
         session_end      |-> t,
         duration_seconds |-> Elapsed(s, t),
         total_beats      |-> Len(ir_list),
         avg_bpm          |-> Round(SumSeq(bpm_list), Len(bpm_list), 100),
         min_bpm          |-> Round(MinSeq(bpm_list), 1, 100),
         max_bpm          |-> Round(MaxSeq(bpm_list), 1, 100),
         avg_ir_value     |-> IF ir_list # <<>>
                              THEN Round(SumSeq(ir_list), Len(ir_list), 100) ELSE 0,
         signal_quality   |-> IF ir_list # <<>>
                              THEN Round(good_signal_count * 100, Len(ir_list), 100)
                              ELSE 0,
         waveform_sample  |-> s.waveform_samples]

\* The summary dict of end_session (lines 150-168); rates, amplitude mean and
\* quality in hundredths (round(x, 2)).
Summary(s, d, t) ==
    LET bpm_list == s.bpm_values
        ir_list  == s.ir_values
        good_signal_count == CountAbove(ir_list, IrThreshold)
    IN  [device_id        |-> d,
         session_start    |-> s.start_time,
         session_end      |-> t,
         duration_seconds |-> Elapsed(s, t),
         total_beats      |-> s.beat_count,
         avg_bpm          |-> Round(SumSeq(bpm_list), Len(bpm_list), 100),
         min_bpm          |-> Round(MinSeq(bpm_list), 1, 100),
         max_bpm          |-> Round(MaxSeq(bpm_list), 1, 100),
         avg_ir_value     |-> IF ir_list # <<>>
                              THEN Round(SumSeq(ir_list), Len(ir_list), 100) ELSE 0,
         signal_quality   |-> IF ir_list # <<>>
                              THEN Round(good_signal_count * 100, Len(ir_list), 100)
                              ELSE 0,
         waveform_sample  |-> s.waveform_samples]

\* Variant of end_session: the guard tests beat_count only, so
\* statistics.mean raises StatisticsError on an empty rate buffer.
end_session_counting_only(sessions, d, t) ==
    IF d \notin DOMAIN sessions
    THEN [raised |-> FALSE, summary |-> <<>>, sessions |-> sessions]
    ELSE LET s == sessions[d] IN
         IF s.beat_count = 0
         THEN [raised |-> FALSE, summary |-> <<>>, sessions |-> DictDel(sessions, d)]
         ELSE IF ~AllNum(s.ir_values) \/ s.bpm_values = <<>>
         THEN [raised |-> TRUE, summary |-> <<>>, sessions |-> sessions]
         ELSE [raised |-> FALSE, summary |-> << Summary(s, d, t) >>,
               sessions |-> DictDel(sessions, d)]

\* Variant of end_session: the "no valid data" branch returns None without
\* deleting the session.
end_session_keeping_empty(sessions, d, t) ==
    IF d \notin DOMAIN sessions
    THEN [raised |-> FALSE, summary |-> <<>>, sessions |-> sessions]
    ELSE LET s == sessions[d] IN
         IF s.bpm_values = <<>> \/ s.beat_count = 0
         THEN [raised |-> FALSE, summary |-> <<>>, sessions |-> sessions]
         ELSE IF ~AllNum(s.ir_values)
         THEN [raised |-> TRUE, summary |-> <<>>, sessions |-> sessions]
         ELSE [raised |-> FALSE, summary |-> << Summary(s, d, t) >>,
               sessions |-> DictDel(sessions, d)]

\* Variant of end_session: the "not in active_sessions" test is missing, so
\* the lookup of an absent device raises KeyError.
end_session_unguarded(sessions, d, t) ==
    IF d \notin DOMAIN sessions
    THEN [raised |-> TRUE, summary |-> <<>>, sessions |-> sessions]
    ELSE LET s == sessions[d] IN
         IF s.bpm_values = <<>> \/ s.beat_count = 0
         THEN [raised |-> FALSE, summary |-> <<>>, sessions |-> DictDel(sessions, d)]
         ELSE IF ~AllNum(s.ir_values)
         THEN [raised |-> TRUE, summary |-> <<>>, sessions |-> sessions]
         ELSE [raised |-> FALSE, summary |-> << Summary(s, d, t) >>,
               sessions |-> DictDel(sessions, d)]

\* Variant of end_session: the summary is returned but the session is not
\* deleted ("del" of line 173 is missing).
end_session_not_removing(sessions, d, t) ==
    IF d \notin DOMAIN sessions
    THEN [raised |-> FALSE, summary |-> <<>>, sessions |-> sessions]
    ELSE LET s == sessions[d] IN
         IF s.bpm_values = <<>> \/ s.beat_count = 0
         THEN [raised |-> FALSE, summary |-> <<>>, sessions |-> DictDel(sessions, d)]
         ELSE IF ~AllNum(s.ir_values)
         THEN [raised |-> TRUE, summary |-> <<>>, sessions |-> sessions]
         ELSE [raised |-> FALSE, summary |-> << Summary(s, d, t) >>,
               sessions |-> sessions]

\* SessionManager.end_session: summary is <<>> for None.  "ir > 50000" raises
\* TypeError on a stored ir that is not a number, before the session is
\* deleted.
end_session(sessions, d, t) ==
    IF d \notin DOMAIN sessions
    THEN [raised |-> FALSE, summary |-> <<>>, sessions |-> sessions]
    ELSE LET s == sessions[d] IN
         IF s.bpm_values = <<>> \/ s.beat_count = 0
         THEN [raised |-> FALSE, summary |-> <<>>, sessions |-> DictDel(sessions, d)]
         ELSE IF ~AllNum(s.ir_values)
         THEN [raised |-> TRUE, summary |-> <<>>, sessions |-> sessions]
         ELSE [raised |-> FALSE, summary |-> << Summary(s, d, t) >>,
               sessions |-> DictDel(sessions, d)]

\* ------------------------------------------------------------------- state
VARIABLES
    active_sessions,     \* SessionManager.active_sessions: device -> session dict
    active_connections,  \* ConnectionManager.active_connections: list of websockets
    pc,                  \* per connection: "new", "open" (at receive_text),
                         \* "bcast" (inside manager.broadcast), "closed"
    device_id,           \* the local device_id of each websocket_endpoint call
    alive,               \* per connection: the peer is still there (a send succeeds)
    bIdx,                \* per connection: position of broadcast's list iterator
    bFailed,             \* per connection: the list "disconnected" of its broadcast
    db,                  \* rows of heartbeat_sessions, in insertion order
    now,                 \* datetime.utcnow(); the clock ticks once per received
                         \* message, so it also counts the messages received
    h_last,              \* history: what the last step did
    h_bc,                \* history, per running broadcast: members and deliveries
    h_sent,              \* history, per device: senders of the heartbeat events with
                         \* a numeric bpm processed since its session was created
    h_rates,             \* history, per device: the bpm of those events, in order
    h_seen,              \* history, per device: the highest beat of its session
                         \* whose broadcast an observer has received
    h_handed,            \* history: the sessions whose summary was handed to the
                         \* database session, in order
    h_replaced,          \* history: the sessions start_session overwrote
    feed                 \* the readings a device sends, beat after beat (its
                         \* parameters); used when one session is followed alone

vars == <<active_sessions, active_connections, pc, device_id, alive, bIdx,
          bFailed, db, now, h_last, h_bc, h_sent, h_rates, h_seen, h_handed,
          h_replaced, feed>>

Range(s) == {s[i] : i \in 1..Len(s)}

IdleBc == [start |-> {}, whole |-> {}, tried |-> <<>>, got |-> <<>>,
           failed |-> <<>>, dev |-> NoDevice, beat |-> 0, since |-> 0]

\* A session is identified by its device and its start_time.
Key(d, s) == [dev |-> d, start |-> s.start_time]

\* The record of a step: kind and connection, the device it named, the
\* SessionManager method it called, whether the device had a session before
\* and with how many beats, whether the step raised, the method's result (<<>> for None), the
\* reply sent on the own connection and whether that send succeeded, the
\* summary handed to the database and whether the commit succeeded, and for
\* a returning broadcast its history.  ack_id is the session_id a
\* session_saved reply carries; numeric tells whether the bpm of a heartbeat
\* was a number.
Last(kind, c) ==
    [kind |-> kind, conn |-> c, dev |-> NoDevice, op |-> "none", had |-> FALSE,
     beats |-> 0, raised |-> FALSE, result |-> <<>>, reply |-> "none", reply_ok |-> TRUE,
     handed |-> <<>>, saved |-> FALSE, bcast |-> <<>>, ack_id |-> 0,
     numeric |-> TRUE]

\* The record of a step on connection c that called method op for device d.
Called(kind, c, op, d) ==
    [Last(kind, c) EXCEPT !.dev = d, !.op = op,
                          !.had = (d \in DOMAIN active_sessions),
                          !.beats = IF d \in DOMAIN active_sessions
                                    THEN active_sessions[d].beat_count ELSE 0]

\* The hub, the connections and the database after the module is loaded.
Idle ==
    /\ active_connections = <<>>
    /\ pc = [c \in Conns |-> "new"]
    /\ device_id = [c \in Conns |-> NoDevice]
    /\ alive = [c \in Conns |-> TRUE]
    /\ bIdx = [c \in Conns |-> 0]
    /\ bFailed = [c \in Conns |-> <<>>]
    /\ db = <<>>
    /\ h_last = Last("init", 0)
    /\ h_bc = [c \in Conns |-> IdleBc]
    /\ h_sent = [d \in Devs |-> <<>>]
    /\ h_seen = [d \in Devs |-> 0]
    /\ h_handed = <<>>
    /\ h_replaced = {}

\* No feed: the readings of a heartbeat are chosen message by message.
NoFeed == [zero |-> 0, base |-> 0, span |-> 1, warm |-> 0]

Init ==
    /\ Idle
    /\ active_sessions = [d \in {} |-> NewSession(0)]
    /\ now = 0
    /\ h_rates = [d \in Devs |-> <<>>]
    /\ feed = NoFeed

\* The per-device histories after a step left the registry as newSessions:
\* those of a device without a session are empty.
Forget(h, newSessions, empty) ==
    [x \in Devs |-> IF x \in DOMAIN newSessions THEN h[x] ELSE empty]

\* Every running broadcast loses from "whole" the members a step removed.
WholeAfter(newAc) ==
    [k \in Conns |-> [h_bc[k] EXCEPT !.whole = @ \cap Range(newAc)]]

\* ------------------------------------------------------- ConnectionManager
\* ConnectionManager.connect: accept, then append to the list.  Connections
\* are numbered in the order the server accepts them.
Connect(c) ==
    /\ pc[c] = "new"
    /\ \A k \in Conns : k < c => pc[k] # "new"
    /\ pc' = [pc EXCEPT ![c] = "open"]
    /\ active_connections' = Append(active_connections, c)
    /\ h_last' = Last("connect", c)
    /\ UNCHANGED <<feed, active_sessions, device_id, alive, bIdx, bFailed, db, now,
                   h_bc, h_sent, h_rates, h_seen, h_handed, h_replaced>>

\* ConnectionManager.disconnect on the list l.
disconnect(l, c) == IF InList(l, c) THEN ListRemove(l, c) ELSE l

\* Variant of DisconnectAll: the second loop is missing, nobody is removed.
DisconnectNobody(l, failed) == l

\* The second loop of broadcast: disconnect every collected connection.
RECURSIVE DisconnectAll(_, _)
DisconnectAll(l, failed) ==
    IF failed = <<>> THEN l
    ELSE DisconnectAll(disconnect(l, failed[1]), Tail(failed))

\* The outcome of "await connection.send_text(message)" to observer o inside
\* broadcast: it raises when the peer of o is gone.
SendRaises(o) == ~alive[o]

\* The list "disconnected" after the send to o.
Collect(failed, o) == IF SendRaises(o) THEN Append(failed, o) ELSE failed

\* ConnectionManager.broadcast from iterator position idx, up to its next
\* suspension: the list iterator yields active_connections[idx + 1] of the
\* list as it is now, and the send to it starts; or the iterator is exhausted
\* (idx >= len), the collected connections are disconnected and broadcast
\* returns to the receive loop.  g is the history of this broadcast; the
\* registry of the step (active_sessions') is set before.
BroadcastAdvance(c, idx, failed, g) ==
    IF idx < Len(active_connections)
    THEN LET o == active_connections[idx + 1] IN
         /\ pc' = [pc EXCEPT ![c] = "bcast"]
         /\ h_seen' = IF /\ ~SendRaises(o)
                         /\ g.dev \in DOMAIN active_sessions'
                         /\ active_sessions'[g.dev].start_time = g.since
                         /\ g.beat > h_seen[g.dev]
                      THEN [h_seen EXCEPT ![g.dev] = g.beat]
                      ELSE h_seen
         /\ bIdx' = [bIdx EXCEPT ![c] = idx + 1]
         /\ bFailed' = [bFailed EXCEPT ![c] = Collect(failed, o)]
         /\ active_connections' = active_connections
         /\ h_bc' = [h_bc EXCEPT ![c] =
                        [g EXCEPT !.tried = Append(@, o),
                                  !.got = IF SendRaises(o) THEN @ ELSE Append(@, o),
                                  !.failed = IF SendRaises(o) THEN Append(@, o) ELSE @]]
    ELSE LET newAc == DisconnectAll(active_connections, failed) IN
         /\ pc' = [pc EXCEPT ![c] = "open"]
         /\ bIdx' = [bIdx EXCEPT ![c] = 0]
         /\ bFailed' = [bFailed EXCEPT ![c] = <<>>]
         /\ active_connections' = newAc
         /\ h_seen' = h_seen
         /\ h_bc' = [WholeAfter(newAc) EXCEPT ![c] = IdleBc]

\* A broadcast resumes after the send it was suspended in.
BroadcastStep(c) ==
    /\ pc[c] = "bcast"
    /\ UNCHANGED <<feed, active_sessions, device_id, alive, db, now, h_sent, h_rates,
                   h_handed, h_replaced>>
    /\ BroadcastAdvance(c, bIdx[c], bFailed[c], h_bc[c])
    /\ h_last' = IF bIdx[c] < Len(active_connections)
                 THEN Last("broadcast_send", c)
                 ELSE [Last("broadcast_return", c) EXCEPT !.bcast = <<h_bc[c]>>]

\* ------------------------------------------------------ websocket_endpoint
\* Variant of InnerExcept: the error is not caught and ends the handler.
InnerExceptMissing == "closed"

\* Where the loop stands after the inner "except json.JSONDecodeError" /
\* "except Exception" caught an error: the while loop goes on to receive_text.
InnerExcept == "open"

\* db.add + db.commit + db.refresh: the row gets the next id.
DbAdd(rows, summary) == Append(rows, [id |-> Len(rows) + 1, row |-> summary])

\* The outcomes of a commit: it succeeds or raises.
CommitOutcomes == BOOLEAN

\* Variant of AckAfterCommit: the acknowledgement is sent before the commit.
AckBeforeCommit(saved) == "session_saved"

\* The reply of the session_end branch: send_text (line 269) stands in the try
\* block after db.commit and db.refresh, so it is reached only when they did
\* not raise; the except clause (line 279) sends nothing.
AckAfterCommit(saved) == IF saved THEN "session_saved" ELSE "none"

\* A message can be received on c: the loop is at receive_text and the peer
\* is there to send one.
CanReceive(c) == pc[c] = "open" /\ alive[c] /\ now < MaxMsgs

\* {"type": "session_start"}: start_session, then the session_started reply,
\* whose send raises when the peer went away in the meantime.
SessionStart(c, d) ==
    /\ CanReceive(c)
    /\ device_id' = [device_id EXCEPT ![c] = d]
    /\ active_sessions' = start_session(active_sessions, d, now)
    /\ h_sent' = [h_sent EXCEPT ![d] = <<>>]
    /\ h_rates' = [h_rates EXCEPT ![d] = <<>>]
    /\ h_seen' = [h_seen EXCEPT ![d] = 0]
    /\ h_replaced' = IF d \in DOMAIN active_sessions
                     THEN h_replaced \cup {Key(d, active_sessions[d])}
                     ELSE h_replaced
    /\ \E ok \in BOOLEAN :
          /\ alive' = [alive EXCEPT ![c] = ok]
          /\ pc' = [pc EXCEPT ![c] = IF ok THEN "open" ELSE InnerExcept]
          /\ h_last' = [Called("session_start", c, "start_session", d) EXCEPT
                           !.reply = "session_started", !.reply_ok = ok]
    /\ now' = now + 1
    /\ UNCHANGED <<feed, active_connections, bIdx, bFailed, db, h_bc, h_handed>>

\* {"type": "heartbeat"}: add_beat, then manager.broadcast up to its first
\* suspension.  An add_beat that raises is caught by the inner except.
Heartbeat(c, d, bpm, ir, ac) ==
    /\ CanReceive(c)
    /\ LET r == add_beat(active_sessions, d, bpm, ir, ac, now) IN
       /\ active_sessions' = r.sessions
       /\ device_id' = [device_id EXCEPT ![c] = d]
       /\ h_last' = [Called("heartbeat", c, "add_beat", d) EXCEPT
                        !.raised = r.raised, !.numeric = bpm.num]
       /\ IF r.raised
          THEN /\ pc' = [pc EXCEPT ![c] = InnerExcept]
               /\ h_sent' = [h_sent EXCEPT ![d] =
                                IF d \in DOMAIN active_sessions THEN @ ELSE <<>>]
               /\ UNCHANGED <<active_connections, bIdx, bFailed, h_bc, h_rates,
                              h_seen>>
          ELSE /\ h_sent' = [h_sent EXCEPT ![d] = Append(@, c)]
               /\ h_rates' = [h_rates EXCEPT ![d] = Append(@, bpm)]
               /\ BroadcastAdvance(c, 0, <<>>,
                     [IdleBc EXCEPT !.start = Range(active_connections),
                                    !.whole = Range(active_connections),
                                    !.dev   = d,
                                    !.beat  = Len(h_sent[d]) + 1,
                                    !.since = r.sessions[d].start_time])
    /\ now' = now + 1
    /\ UNCHANGED <<feed, alive, db, h_handed, h_replaced>>

\* {"type": "session_end"}: end_session; a summary is committed and, when the
\* commit succeeded, acknowledged with session_saved; a commit that raises is
\* caught next to it (rollback, no reply).
SessionEnd(c, d) ==
    /\ CanReceive(c)
    /\ LET r == end_session(active_sessions, d, now) IN
       /\ active_sessions' = r.sessions
       /\ device_id' = [device_id EXCEPT ![c] = d]
       /\ h_sent' = Forget(h_sent, r.sessions, <<>>)
       /\ h_rates' = Forget(h_rates, r.sessions, <<>>)
       /\ h_seen' = Forget(h_seen, r.sessions, 0)
       /\ IF r.raised
          THEN /\ pc' = [pc EXCEPT ![c] = InnerExcept]
               /\ h_last' = [Called("session_end", c, "end_session", d) EXCEPT
                                !.raised = TRUE]
               /\ UNCHANGED <<alive, db, h_handed>>
          ELSE IF r.summary = <<>>
          THEN /\ h_last' = Called("session_end", c, "end_session", d)
               /\ UNCHANGED <<pc, alive, db, h_handed>>
          ELSE \E saved \in CommitOutcomes :
                  \E ok \in IF saved THEN BOOLEAN ELSE {TRUE} :
                     /\ db' = IF saved THEN DbAdd(db, r.summary[1]) ELSE db
                     /\ h_handed' = Append(h_handed, Key(d, active_sessions[d]))
                     /\ alive' = [alive EXCEPT ![c] = ok]
                     /\ pc' = [pc EXCEPT ![c] = IF ok THEN "open" ELSE InnerExcept]
                     /\ h_last' = [Called("session_end", c, "end_session", d) EXCEPT
                                      !.result = r.summary,
                                      !.handed = r.summary, !.saved = saved,
                                      !.reply = AckAfterCommit(saved),
                                      !.reply_ok = ok,
                                      !.ack_id = IF saved THEN db'[Len(db')].id ELSE 0]
    /\ now' = now + 1
    /\ UNCHANGED <<feed, active_connections, bIdx, bFailed, h_bc, h_replaced>>

\* {"type": "get_session_info"}: a reply only when the info is not None.
GetSessionInfo(c, d) ==
    /\ CanReceive(c)
    /\ device_id' = [device_id EXCEPT ![c] = d]
    /\ LET info == get_session_info(active_sessions, d, now) IN
       IF info = <<>>
       THEN /\ h_last' = Called("get_session_info", c, "get_session_info", d)
            /\ UNCHANGED <<pc, alive>>
       ELSE \E ok \in BOOLEAN :
               /\ alive' = [alive EXCEPT ![c] = ok]
               /\ pc' = [pc EXCEPT ![c] = IF ok THEN "open" ELSE InnerExcept]
               /\ h_last' = [Called("get_session_info", c, "get_session_info", d) EXCEPT
                                !.result = info,
                                !.reply = "session_info", !.reply_ok = ok]
    /\ now' = now + 1
    /\ UNCHANGED <<feed, active_sessions, active_connections, bIdx, bFailed, db,
                   h_bc, h_sent, h_rates, h_seen, h_handed, h_replaced>>

\* A text that json.loads rejects (JSONDecodeError), or JSON that is no
\* object (json_data.get raises AttributeError): caught, nothing else runs.
Malformed(c) ==
    /\ CanReceive(c)
    /\ pc' = [pc EXCEPT ![c] = InnerExcept]
    /\ h_last' = [Last("malformed", c) EXCEPT !.raised = TRUE]
    /\ now' = now + 1
    /\ UNCHANGED <<feed, active_sessions, active_connections, device_id, alive, bIdx,
                   bFailed, db, h_bc, h_sent, h_rates, h_seen, h_handed,
                   h_replaced>>

\* An object whose "type" matches no branch of the if/elif chain.
UnknownType(c) ==
    /\ CanReceive(c)
    /\ h_last' = Last("unknown_type", c)
    /\ now' = now + 1
    /\ UNCHANGED <<feed, active_sessions, active_connections, pc, device_id, alive,
                   bIdx, bFailed, db, h_bc, h_sent, h_rates, h_seen, h_handed,
                   h_replaced>>

\* receive_text raises WebSocketDisconnect: the auto-save of lines 303-324.
\* An end_session that raises leaves the handler before manager.disconnect.
\* The local device_id ends with the coroutine.
RecvDisconnect(c) ==
    /\ pc[c] = "open" /\ ~alive[c]
    /\ LET dv == device_id[c]
           bound == Truthy(dv) /\ dv \in DOMAIN active_sessions
           r == IF bound THEN end_session(active_sessions, dv, now)
                ELSE [raised |-> FALSE, summary |-> <<>>,
                      sessions |-> active_sessions]
       IN
       /\ pc' = [pc EXCEPT ![c] = "closed"]
       /\ active_sessions' = r.sessions
       /\ h_sent' = Forget(h_sent, r.sessions, <<>>)
       /\ h_rates' = Forget(h_rates, r.sessions, <<>>)
       /\ h_seen' = Forget(h_seen, r.sessions, 0)
       /\ IF r.raised
          THEN /\ h_last' = [Called("ws_disconnect", c, "end_session", dv) EXCEPT
                                !.raised = TRUE]
               /\ UNCHANGED <<active_connections, db, h_bc, h_handed>>
          ELSE \E saved \in IF r.summary # <<>> THEN CommitOutcomes ELSE {FALSE} :
                  LET newAc == disconnect(active_connections, c) IN
                  /\ db' = IF saved THEN DbAdd(db, r.summary[1]) ELSE db
                  /\ h_handed' = IF r.summary # <<>>
                                 THEN Append(h_handed, Key(dv, active_sessions[dv]))
                                 ELSE h_handed
                  /\ active_connections' = newAc
                  /\ h_bc' = WholeAfter(newAc)
                  /\ h_last' = [Called("ws_disconnect", c,
                                       IF bound THEN "end_session" ELSE "none", dv)
                                   EXCEPT !.result = r.summary,
                                          !.handed = r.summary, !.saved = saved]
    /\ device_id' = [device_id EXCEPT ![c] = NoDevice]
    /\ UNCHANGED <<feed, alive, bIdx, bFailed, now, h_replaced>>

\* receive_text raises something that is not WebSocketDisconnect (KeyError on
\* a binary frame, RuntimeError on a connection already disconnected): no
\* except clause of websocket_endpoint matches, the coroutine ends and the
\* server closes the socket.
RecvError(c) ==
    /\ pc[c] = "open"
    /\ pc' = [pc EXCEPT ![c] = "closed"]
    /\ alive' = [alive EXCEPT ![c] = FALSE]
    /\ device_id' = [device_id EXCEPT ![c] = NoDevice]
    /\ h_last' = [Called("recv_error", c, "none", device_id[c]) EXCEPT
                     !.raised = TRUE]
    /\ UNCHANGED <<feed, active_sessions, active_connections, bIdx, bFailed,
                   db, now, h_bc, h_sent, h_rates, h_seen, h_handed, h_replaced>>

\* ------------------------------------------------------------- environment
\* The peer of an accepted connection goes away.
PeerGone(c) ==
    /\ pc[c] \in {"open", "bcast"} /\ alive[c]
    /\ alive' = [alive EXCEPT ![c] = FALSE]
    /\ h_last' = Last("peer_gone", c)
    /\ UNCHANGED <<feed, active_sessions, active_connections, pc, device_id, bIdx,
                   bFailed, db, now, h_bc, h_sent, h_rates, h_seen, h_handed,
                   h_replaced>>

Next ==
    \/ \E c \in Conns : Connect(c)
    \/ \E c \in Conns : BroadcastStep(c)
    \/ \E c \in Conns, d \in Devs : SessionStart(c, d)
    \/ \E c \in Conns, d \in Devs, bpm \in BpmVals, ir \in IrVals, ac \in AcVals :
          Heartbeat(c, d, bpm, ir, ac)
    \/ \E c \in Conns, d \in Devs : SessionEnd(c, d)
    \/ \E c \in Conns, d \in Devs : GetSessionInfo(c, d)
    \/ \E c \in Conns : Malformed(c)
    \/ \E c \in Conns : UnknownType(c)
    \/ \E c \in Conns : RecvDisconnect(c)
    \/ \E c \in Conns : RecvError(c)
    \/ \E c \in Conns : PeerGone(c)

Spec == Init /\ [][Next]_vars

\* --------------------------------------------- one session, beat after beat
\* The SessionManager under the calls the dispatcher makes for one device on
\* one connection, from the start of a session to its end: a long feed of
\* heartbeats, with get_session_info at any time.  The clock ticks once per
\* heartbeat.  The feed gives the n-th reading: every zero-th rate is 0 or
\* negative (none when zero = 0), the others run through base .. base + span
\* - 1.  The
\* session is followed from the point where add_beat has processed the first
\* "warm" readings of the feed, for MaxBeats more.
ZeroEvery == {0, 1, 3}
WarmUps   == {0, 990, 1490, 4990}
Feeds == {[zero |-> z, base |-> 58, span |-> 7, warm |-> w] :
             z \in ZeroEvery, w \in WarmUps}

Rate(f, n) ==
    Num(IF f.zero > 0 /\ n % f.zero = 0
        THEN (IF n % 4 = 1 THEN -3 ELSE 0)
        ELSE f.base + (n % f.span))
Amplitude(n) == Num(40000 + (n % 3) * 10000)
RawSignal(n) == n % 5

\* The registry after add_beat processed the readings lo .. hi of feed f, the
\* n-th at time n - 1.  The calls are composed by halves; the first half is
\* computed before the second is entered.
RECURSIVE Fed(_, _, _, _)
Fed(sessions, f, lo, hi) ==
    IF lo > hi THEN sessions
    ELSE IF lo = hi
    THEN add_beat(sessions, DefaultDevice, Rate(f, lo), Amplitude(lo),
                  RawSignal(lo), lo - 1).sessions
    ELSE LET mid  == (lo + hi) \div 2
             half == Fed(sessions, f, lo, mid)
         IN  IF DefaultDevice \in DOMAIN half
             THEN Fed(half, f, mid + 1, hi)
             ELSE half

BeatsInit ==
    /\ Idle
    /\ feed \in Feeds
    /\ active_sessions = Fed([d \in {} |-> NewSession(0)], feed, 1, feed.warm)
    /\ now = feed.warm
    /\ h_rates = [d \in Devs |-> IF d = DefaultDevice
                                 THEN [n \in 1..feed.warm |-> Rate(feed, n)]
                                 ELSE <<>>]

\* The variables of the hub, the connections and the database.
others == <<active_connections, pc, device_id, alive, bIdx, bFailed, db, h_bc,
            h_sent, h_seen, h_handed, h_replaced, feed>>

\* start_session(device_id), before the first heartbeat.
BeatsStart ==
    /\ now = 0
    /\ active_sessions' = start_session(active_sessions, DefaultDevice, now)
    /\ h_rates' = [h_rates EXCEPT ![DefaultDevice] = <<>>]
    /\ h_last' = Called("session_start", 0, "start_session", DefaultDevice)
    /\ UNCHANGED <<others, now>>

\* add_beat with the next reading of the feed; the first one starts the
\* session when none was started.
BeatsAdd ==
    /\ now < feed.warm + MaxBeats
    /\ now = 0 \/ DefaultDevice \in DOMAIN active_sessions
    /\ LET n == now + 1
           r == add_beat(active_sessions, DefaultDevice, Rate(feed, n),
                         Amplitude(n), RawSignal(n), now)
       IN  /\ active_sessions' = r.sessions
           /\ h_rates' = [h_rates EXCEPT ![DefaultDevice] = Append(@, Rate(feed, n))]
           /\ h_last' = [Called("heartbeat", 0, "add_beat", DefaultDevice) EXCEPT
                            !.raised = r.raised]
    /\ now' = now + 1
    /\ UNCHANGED others

\* get_session_info(device_id).
BeatsInfo ==
    /\ h_last' = [Called("get_session_info", 0, "get_session_info", DefaultDevice)
                     EXCEPT !.result =
                         get_session_info(active_sessions, DefaultDevice, now)]
    /\ UNCHANGED <<others, active_sessions, h_rates, now>>

\* end_session(device_id) of the session.
BeatsEnd ==
    /\ DefaultDevice \in DOMAIN active_sessions
    /\ LET r == end_session(active_sessions, DefaultDevice, now) IN
       /\ active_sessions' = r.sessions
       /\ h_rates' = Forget(h_rates, r.sessions, <<>>)
       /\ h_last' = [Called("session_end", 0, "end_session", DefaultDevice) EXCEPT
                        !.raised = r.raised, !.result = r.summary]
    /\ UNCHANGED <<others, now>>

BeatsNext == BeatsStart \/ BeatsAdd \/ BeatsInfo \/ BeatsEnd

SpecBeats == BeatsInit /\ [][BeatsNext]_vars

\* ================================================================== claims
Members == Range(active_connections)

\* How often x occurs in the sequence q.
Occurrences(q, x) == Cardinality({i \in 1..Len(q) : q[i] = x})

\* The last step was the return of a broadcast; Returned is its history.
BroadcastReturned == h_last.kind = "broadcast_return"
Returned == h_last.bcast[1]

\* C1: a broadcast attempts a send, exactly once, to every observer that was
\* a member of the hub from its start to its return, whatever connects or
\* disconnects while it is suspended in a send.
C1_BroadcastReachesEveryStayingObserver ==
    BroadcastReturned =>
        \A o \in Returned.whole : Occurrences(Returned.tried, o) = 1

\* C2: when a broadcast returns (it does not fail), every observer whose
\* send raised is out of the hub, and every other observer that was a member
\* from its start to its return received the event and is still a member.
C2_FailureIsolated ==
    BroadcastReturned =>
        /\ pc[h_last.conn] = "open"
        /\ \A o \in Range(Returned.failed) : o \notin Members
        /\ \A o \in Returned.whole \ Range(Returned.failed) :
              /\ Occurrences(Returned.got, o) = 1
              /\ o \in Members

\* C2 on the broadcasts during which nobody else left the hub: every member
\* the broadcast started with was sent to exactly once; those whose send
\* raised are out of the hub, the others received the event and are members.
C2_UndisturbedBroadcast ==
    (BroadcastReturned /\ Returned.whole = Returned.start) =>
        /\ pc[h_last.conn] = "open"
        /\ \A o \in Returned.start :
              /\ Occurrences(Returned.tried, o) = 1
              /\ o \in Range(Returned.failed) => o \notin Members
              /\ o \notin Range(Returned.failed) =>
                    /\ Occurrences(Returned.got, o) = 1
                    /\ o \in Members

\* An undisturbed broadcast returned; one send raised and a later send of the
\* same broadcast was delivered.
C2_UndisturbedReached ==
    /\ BroadcastReturned
    /\ Returned.whole = Returned.start
    /\ \E i, j \in 1..Len(Returned.tried) :
          /\ i < j
          /\ Returned.tried[i] \in Range(Returned.failed)
          /\ Returned.tried[j] \in Range(Returned.got)

\* C3: the beat_count of a live session is the number of heartbeat events
\* (with a numeric bpm) processed for the device since the session was
\* created, whichever connections sent them and however their broadcasts
\* interleave.
C3_NoLostBeat ==
    \A d \in DOMAIN active_sessions :
        active_sessions[d].beat_count = Len(h_sent[d])

\* C3 witness: two connections each sent a heartbeat for the same device, the
\* second while the broadcast of the first was still suspended.
C3_Witness ==
    \E d \in DOMAIN active_sessions :
        /\ Len(h_sent[d]) = 2
        /\ h_sent[d][1] # h_sent[d][2]
        /\ pc[h_sent[d][1]] = "bcast"
        /\ active_sessions[d].beat_count = 2

\* A step closed connection c.
Closes(c) == pc[c] # "closed" /\ pc'[c] = "closed"

\* C4: when a connection is closed by a transport failure while the device it
\* last named has a session, the session leaves the registry and the summary
\* end_session yields for it, if any, is handed to the database.
C4_ClosureFinalizesBoundSession ==
    [][\A c \in Conns :
          (/\ Closes(c)
           /\ device_id[c] # NoDevice
           /\ device_id[c] \in DOMAIN active_sessions)
          => /\ device_id[c] \notin DOMAIN active_sessions'
             /\ h_last'.handed =
                   end_session(active_sessions, device_id[c], now).summary]_vars

\* C5: a reply whose send fails closes the connection: the handler leaves
\* the receive loop and the connection leaves the hub.
C5_FailedReplyCloses ==
    (h_last.reply # "none" /\ ~h_last.reply_ok) =>
        /\ pc[h_last.conn] = "closed"
        /\ h_last.conn \notin Members

\* The last step called end_session, from a session_end message or from the
\* disconnect path.
EndCalled(l) == l.op = "end_session"

\* A summary has defined statistics.
WellFormed(sm) ==
    /\ sm.total_beats >= 1
    /\ 0 < sm.min_bpm
    /\ sm.min_bpm <= sm.avg_bpm
    /\ sm.avg_bpm <= sm.max_bpm

\* C6: end_session returns None (and does not raise) on a session with no
\* beat or with an empty rate buffer; a summary it returns, and one handed to
\* the database, comes from a session with at least one beat and a non-empty
\* buffer of strictly positive rates, and its avg/min/max are defined.
C6_SummaryOnlyWithData ==
    [][EndCalled(h_last') =>
          LET d == h_last'.dev IN
          /\ (/\ d \in DOMAIN active_sessions
              /\ (\/ active_sessions[d].beat_count = 0
                  \/ active_sessions[d].bpm_values = <<>>))
             => /\ ~h_last'.raised
                /\ h_last'.result = <<>>
                /\ h_last'.handed = <<>>
                /\ db' = db
          /\ (h_last'.result # <<>> \/ h_last'.handed # <<>>)
             => /\ d \in DOMAIN active_sessions
                /\ active_sessions[d].beat_count >= 1
                /\ active_sessions[d].bpm_values # <<>>
                /\ \A i \in 1..Len(active_sessions[d].bpm_values) :
                      active_sessions[d].bpm_values[i].v > 0
                /\ h_last'.handed = h_last'.result
                /\ WellFormed(h_last'.result[1])
          /\ \A i \in 1..Len(db') : WellFormed(db'[i].row)]_vars

\* C6 witness: end_session returned a summary of a session of two beats, one
\* of them with rate 0: the statistics are those of the one positive rate.
C6_Witness ==
    /\ EndCalled(h_last) /\ h_last.beats = 2
    /\ h_last.handed # <<>>
    /\ h_last.handed[1].total_beats = 2
    /\ h_last.handed[1].min_bpm = 6000
    /\ h_last.handed[1].avg_bpm = 6000
    /\ h_last.handed[1].max_bpm = 6000

\* end_session was called on a session that had beats, none with a positive
\* rate, and returned None.
C6_EmptyRatesReached ==
    /\ EndCalled(h_last) /\ h_last.had /\ h_last.beats >= 1 /\ ~h_last.raised
    /\ h_last.result = <<>>
    /\ h_last.dev \notin DOMAIN active_sessions

\* C7: after end_session returned (a summary or None) the device is absent
\* from the registry, and a device only enters the registry by a
\* start_session or an add_beat for it.
C7_AbsentAfterEnd ==
    [][/\ (EndCalled(h_last') /\ ~h_last'.raised)
          => h_last'.dev \notin DOMAIN active_sessions'
       /\ \A d \in Devs :
             (d \notin DOMAIN active_sessions /\ d \in DOMAIN active_sessions')
             => /\ h_last'.op \in {"start_session", "add_beat"}
                /\ h_last'.dev = d]_vars

\* C7 witness: end_session, called from the disconnect path, removed a
\* session without valid data and returned None.
C7_Witness ==
    /\ h_last.kind = "ws_disconnect" /\ EndCalled(h_last)
    /\ h_last.had /\ ~h_last.raised
    /\ h_last.result = <<>>
    /\ h_last.dev \notin DOMAIN active_sessions

\* C8: end_session and get_session_info for a device without a session
\* return None without raising, leave the registry as it is, and the
\* dispatcher sends no reply and stays in its loop.
C8_AbsentDeviceIsNoError ==
    [][(/\ h_last'.op \in {"end_session", "get_session_info"}
        /\ h_last'.dev \notin DOMAIN active_sessions)
       => /\ ~h_last'.raised
          /\ h_last'.result = <<>>
          /\ h_last'.reply = "none"
          /\ h_last'.handed = <<>>
          /\ active_sessions' = active_sessions
          /\ db' = db
          /\ pc'[h_last'.conn] = "open"]_vars

\* C8 witness: session_end for a device without a session was processed.
C8_Witness ==
    /\ h_last.kind = "session_end" /\ ~h_last.had
    /\ h_last.dev \notin DOMAIN active_sessions
    /\ pc[h_last.conn] = "open"

\* get_session_info for a device without a session was processed.
C8_InfoReached ==
    /\ h_last.kind = "get_session_info" /\ ~h_last.had
    /\ h_last.result = <<>>

\* The kinds of step that process a received message.
MessageKinds == {"session_start", "heartbeat", "session_end",
                 "get_session_info", "malformed", "unknown_type"}

\* C9: a malformed message or one of an unrecognized type is dropped: the
\* connection stays in its receive loop, no reply, registry and hub
\* unchanged.  No step that processes a message, nor a step of a broadcast,
\* closes a connection: only a failing receive_text does.
C9_BadMessageDropped ==
    [][/\ h_last'.kind \in {"malformed", "unknown_type"}
          => /\ pc'[h_last'.conn] = "open"
             /\ h_last'.reply = "none"
             /\ active_sessions' = active_sessions
             /\ active_connections' = active_connections
             /\ db' = db
       /\ \A c \in Conns :
             Closes(c) => /\ h_last'.kind \in {"ws_disconnect", "recv_error"}
                          /\ h_last'.conn = c]_vars

\* C9 witness: a malformed message was processed after a session existed,
\* and the connection is back at receive_text.
C9_Witness ==
    /\ h_last.kind = "malformed"
    /\ pc[h_last.conn] = "open"
    /\ h_last.conn \in Members
    /\ DOMAIN active_sessions # {}

\* C10: a heartbeat or session_end whose processing raised left the registry
\* exactly as it was.
C10_RaisedLeavesRegistry ==
    [][(h_last'.kind \in {"heartbeat", "session_end"} /\ h_last'.raised)
       => active_sessions' = active_sessions]_vars

\* C11: the beat of a heartbeat event is in the registry before any observer
\* receives its broadcast: the beat_count of a live session is at least the
\* highest beat of that session an observer has received, and a
\* get_session_info for the device reports at least that many beats.
C11_RecordedBeforeBroadcast ==
    [][/\ \A d \in DOMAIN active_sessions' :
             active_sessions'[d].beat_count >= h_seen'[d]
       /\ (h_last'.kind = "get_session_info" /\ h_seen[h_last'.dev] > 0)
          => /\ h_last'.result # <<>>
             /\ h_last'.result[1].beats >= h_seen[h_last'.dev]]_vars

\* C11 witness: a get_session_info was answered while the broadcast of the
\* second beat of the session, sent by another connection, was suspended
\* after an observer received it; the info reports both beats.
C11_Witness ==
    /\ h_last.kind = "get_session_info" /\ h_last.result # <<>>
    /\ h_seen[h_last.dev] = 2
    /\ h_last.result[1].beats = 2
    /\ \E c \in Conns \ {h_last.conn} :
          /\ pc[c] = "bcast"
          /\ h_bc[c].dev = h_last.dev /\ h_bc[c].beat = 2
          /\ h_bc[c].got # <<>>

\* C12: on a session_end event the session_saved acknowledgement is sent only
\* when the summary was handed to the database and the commit succeeded, and
\* it carries the id of the new row; when end_session returned None or the
\* commit failed, no reply is sent, the database is unchanged, nothing is
\* kept for a retry and the session is gone from the registry.
C12_AckOnlyAfterSaved ==
    [][(h_last'.kind = "session_end" /\ ~h_last'.raised) =>
          /\ h_last'.reply \in {"session_saved", "none"}
          /\ h_last'.reply = "session_saved"
             => /\ h_last'.saved
                /\ h_last'.handed # <<>>
                /\ h_last'.handed = h_last'.result
                /\ db' = Append(db, [id  |-> h_last'.ack_id,
                                     row |-> h_last'.handed[1]])
                /\ \A i \in 1..Len(db) : db[i].id # h_last'.ack_id
          /\ (h_last'.result = <<>> \/ ~h_last'.saved)
             => /\ h_last'.reply = "none"
                /\ db' = db
                /\ h_last'.dev \notin DOMAIN active_sessions'
                /\ pc'[h_last'.conn] = "open"]_vars

\* C12 witness: a session_end was acknowledged with the id of the second row
\* of the database.
C12_Witness ==
    /\ h_last.kind = "session_end" /\ h_last.reply = "session_saved"
    /\ h_last.ack_id = 2
    /\ Len(db) = 2 /\ db[2].row = h_last.handed[1]

\* The commit of a session_end failed: no reply, no row, and the session that
\* had beats is gone.
C12_LostReached ==
    /\ h_last.kind = "session_end" /\ h_last.handed # <<>> /\ ~h_last.saved
    /\ h_last.reply = "none"
    /\ h_last.dev \notin DOMAIN active_sessions
    /\ db = <<>>

\* The session a row of the database, or a summary, was made from.
KeyOf(sm) == [dev |-> sm.device_id, start |-> sm.session_start]

\* C13: start_session on a device that has a session replaces it: afterwards
\* the session of the device has beat_count 0 and empty rate, amplitude and
\* waveform buffers; nothing is handed to the database at the replacement,
\* and no summary handed or stored at any time is of a replaced session.
C13_StartReplacesWithoutPersisting ==
    [][/\ (h_last'.op = "start_session" /\ h_last'.had)
          => /\ active_sessions'[h_last'.dev].beat_count = 0
             /\ active_sessions'[h_last'.dev].bpm_values = <<>>
             /\ active_sessions'[h_last'.dev].ir_values = <<>>
             /\ active_sessions'[h_last'.dev].waveform_samples = <<>>
             /\ h_last'.handed = <<>>
             /\ h_handed' = h_handed
             /\ db' = db
       /\ \A i \in 1..Len(h_handed') : h_handed'[i] \notin h_replaced'
       /\ \A i \in 1..Len(db') : KeyOf(db'[i].row) \notin h_replaced'
       /\ h_last'.handed # <<>> => KeyOf(h_last'.handed[1]) \notin h_replaced']_vars

\* C13 witness: session_start replaced a session that had two beats and a
\* positive rate; the new session is empty and nothing was handed over.
C13_Witness ==
    /\ h_last.kind = "session_start" /\ h_last.had /\ h_last.beats = 2
    /\ [dev |-> h_last.dev, start |-> 0] \in h_replaced
    /\ active_sessions[h_last.dev].beat_count = 0
    /\ active_sessions[h_last.dev].start_time = 2
    /\ h_handed = <<>> /\ db = <<>>

\* After a session was replaced, the disconnect path ended the new, empty
\* session: nothing of either was handed to the database.
C13_LaterEndReached ==
    /\ h_last.kind = "ws_disconnect" /\ EndCalled(h_last) /\ h_last.had
    /\ h_replaced # {}
    /\ h_last.result = <<>>
    /\ h_handed = <<>> /\ db = <<>>

\* C14: after any sequence of add_beat calls the waveform list of a session
\* holds exactly the most recent min(500, beat_count div 10) captures: one
\* sample per multiple of 10, in increasing beat order, each with the
\* readings of its beat, and never more than 500; after 25 beats these are
\* the samples of beats 10 and 20.
C14_WaveformHoldsRecentTenths ==
    \A d \in DOMAIN active_sessions :
        LET s == active_sessions[d]
            w == s.waveform_samples
            m == s.beat_count \div WaveEvery
            k == IF m < WaveCap THEN m ELSE WaveCap
        IN  /\ Len(w) = k
            /\ Len(w) <= WaveCap
            /\ \A i \in 1..Len(w) :
                  /\ w[i].beat_number = WaveEvery * (m - k + i)
                  /\ w[i].beat_number % WaveEvery = 0
                  /\ i > 1 => w[i - 1].beat_number < w[i].beat_number
                  /\ w[i].bpm = Round(h_rates[d][w[i].beat_number].v, 1, 100)
                  /\ w[i].ir = Amplitude(w[i].beat_number)
                  /\ w[i].ac = RawSignal(w[i].beat_number)
            /\ s.beat_count = 25
               => [i \in 1..Len(w) |-> w[i].beat_number] = <<10, 20>>

\* C14 witness: at beat 5010 the list was at its cap and the sample of beat
\* 10 was dropped: it holds the 500 samples of beats 20 to 5010.
C14_Witness ==
    \E d \in DOMAIN active_sessions :
        /\ active_sessions[d].beat_count = 5010
        /\ Len(active_sessions[d].waveform_samples) = WaveCap
        /\ active_sessions[d].waveform_samples[1].beat_number = 20
        /\ active_sessions[d].waveform_samples[WaveCap].beat_number = 5010

\* A session of 25 beats, one of them with rate 0 at a sampled beat (the
\* feed has a zero rate at every beat): its samples are those of beats 10
\* and 20.
C14_TwentyFiveReached ==
    \E d \in DOMAIN active_sessions :
        /\ active_sessions[d].beat_count = 25
        /\ Len(active_sessions[d].waveform_samples) = 2
        /\ active_sessions[d].waveform_samples[1].bpm = 0

\* The strictly positive rates among the readings h, and the last n of q.
Positives(h) == SelectSeq(h, LAMBDA x : x.v > 0)
LastOf(q, n) == SubSeq(q, Len(q) - n + 1, Len(q))

\* The last min(1000, p) strictly positive rates of the readings h.
Admitted(h) ==
    LET pos == Positives(h)
    IN  LastOf(pos, IF Len(pos) < DequeMaxLen THEN Len(pos) ELSE DequeMaxLen)

\* The sum of the buffer q, value by value: each value times the number of
\* its places.
RECURSIVE WeightedSum(_, _)
WeightedSum(vals, q) ==
    IF vals = {} THEN 0
    ELSE LET v == CHOOSE x \in vals : TRUE
         IN  v * Cardinality({i \in 1..Len(q) : q[i].v = v})
             + WeightedSum(vals \ {v}, q)

Total(q) == WeightedSum({q[i].v : i \in 1..Len(q)}, q)

\* m is the least (greatest) value of the buffer q.
IsMin(m, q) == (\E i \in 1..Len(q) : q[i].v = m) /\ (\A i \in 1..Len(q) : q[i].v >= m)
IsMax(m, q) == (\E i \in 1..Len(q) : q[i].v = m) /\ (\A i \in 1..Len(q) : q[i].v <= m)

\* C15: the rate buffer of a session is the last min(1000, p) strictly
\* positive rates recorded, in admission order; a beat with rate <= 0 leaves
\* it unchanged and still increments beat_count; the avg, min and max of
\* get_session_info (tenths) and of end_session (hundredths) are those of
\* this buffer.
C15_RateBufferIsLastPositives ==
    [][/\ \A d \in DOMAIN active_sessions :
             active_sessions[d].bpm_values = Admitted(h_rates[d])
       /\ \A d \in DOMAIN active_sessions' :
             active_sessions'[d].bpm_values = Admitted(h_rates'[d])
       /\ (/\ h_last'.op = "add_beat" /\ h_last'.had /\ ~h_last'.raised
           /\ h_rates'[h_last'.dev][Len(h_rates'[h_last'.dev])].v <= 0)
          => /\ active_sessions'[h_last'.dev].bpm_values =
                   active_sessions[h_last'.dev].bpm_values
             /\ active_sessions'[h_last'.dev].beat_count =
                   active_sessions[h_last'.dev].beat_count + 1
       /\ (h_last'.op = "get_session_info" /\ h_last'.result # <<>>)
          => LET buf  == active_sessions[h_last'.dev].bpm_values
                 info == h_last'.result[1]
             IN  IF buf = <<>>
                 THEN ~info.has_stats /\ info.avg_bpm = 0
                 ELSE /\ info.has_stats
                      /\ info.avg_bpm = Round(Total(buf), Len(buf), 10)
                      /\ info.min_bpm % 10 = 0 /\ IsMin(info.min_bpm \div 10, buf)
                      /\ info.max_bpm % 10 = 0 /\ IsMax(info.max_bpm \div 10, buf)
       /\ (h_last'.op = "end_session" /\ h_last'.result # <<>>)
          => LET buf == active_sessions[h_last'.dev].bpm_values
                 sm  == h_last'.result[1]
             IN  /\ buf # <<>>
                 /\ sm.avg_bpm = Round(Total(buf), Len(buf), 100)
                 /\ sm.min_bpm % 100 = 0 /\ IsMin(sm.min_bpm \div 100, buf)
                 /\ sm.max_bpm % 100 = 0 /\ IsMax(sm.max_bpm \div 100, buf)]_vars

\* C15 witness: get_session_info reported the statistics of a session in
\* which 1003 positive rates and some non-positive ones were recorded: the
\* buffer holds 1000 rates, the oldest three positive ones are gone.
C15_Witness ==
    /\ h_last.kind = "get_session_info" /\ h_last.result # <<>>
    /\ h_last.result[1].has_stats
    /\ Len(Positives(h_rates[h_last.dev])) = 1003
    /\ h_last.result[1].beats > 1003
    /\ Len(active_sessions[h_last.dev].bpm_values) = DequeMaxLen
    /\ active_sessions[h_last.dev].bpm_values[1] =
          Positives(h_rates[h_last.dev])[4]

\* end_session returned the summary of a session with more than 1000
\* positive rates.
C15_SummaryReached ==
    /\ h_last.op = "end_session" /\ h_last.result # <<>>
    /\ h_last.beats > 1000
    /\ h_last.result[1].total_beats > 1000
    /\ Len(h_last.result[1].waveform_sample) > 100

\* C16: a heartbeat (with a number as its bpm) for a device without a session
\* is not rejected: add_beat starts a session for the device at that time and
\* records the beat in it; right after the step the device has a session
\* with beat_count 1, and the event is broadcast.
C16_HeartbeatStartsSession ==
    [][(h_last'.kind = "heartbeat" /\ ~h_last'.had /\ h_last'.numeric)
       => /\ ~h_last'.raised
          /\ h_last'.dev \in DOMAIN active_sessions'
          /\ h_last'.dev \notin DOMAIN active_sessions
          /\ active_sessions'[h_last'.dev].beat_count = 1
          /\ active_sessions'[h_last'.dev].start_time = now
          /\ Len(active_sessions'[h_last'.dev].ir_values) = 1
          /\ h_rates'[h_last'.dev] = active_sessions'[h_last'.dev].bpm_values
              \/ (/\ active_sessions'[h_last'.dev].bpm_values = <<>>
                  /\ h_rates'[h_last'.dev][1].v <= 0)
          /\ pc'[h_last'.conn] = "bcast"
              \/ active_connections = <<>>]_vars

\* C16 witness: after the session of a device was ended and stored, a
\* heartbeat for it started a new session, which has one beat.
C16_Witness ==
    /\ h_last.kind = "heartbeat" /\ ~h_last.had /\ ~h_last.raised
    /\ Len(db) = 1 /\ db[1].row.device_id = h_last.dev
    /\ active_sessions[h_last.dev].beat_count = 1
    /\ active_sessions[h_last.dev].start_time = 2

\* The methods of SessionManager.
RegistryOps == {"start_session", "add_beat", "get_session_info", "end_session"}

\* C17: a call of start_session, add_beat, get_session_info or end_session
\* for a device, whether it returns or raises, leaves every other device as
\* it was: with or without a session, and its session with the same start
\* time, beat_count and buffers.
C17_IsolatedByDevice ==
    [][h_last'.op \in RegistryOps =>
          \A b \in Devs \ {h_last'.dev} :
             /\ (b \in DOMAIN active_sessions') = (b \in DOMAIN active_sessions)
             /\ b \in DOMAIN active_sessions
                => active_sessions'[b] = active_sessions[b]]_vars

\* C17 witness: end_session for one device raised while another device had a
\* session with a beat, which is still there.
C17_Witness ==
    /\ h_last.op = "end_session" /\ h_last.raised
    /\ \E b \in DOMAIN active_sessions \ {h_last.dev} :
          active_sessions[b].beat_count = 1

\* The disconnect path ended and stored the session of one device while
\* another device had a session with a beat.
C17_EndReached ==
    /\ h_last.kind = "ws_disconnect" /\ h_last.handed # <<>>
    /\ \E b \in DOMAIN active_sessions \ {h_last.dev} :
          active_sessions[b].beat_count = 1

\* C18: a session is handed to the database at most once: the sessions of
\* the summaries handed over (and of the rows stored) are pairwise distinct,
\* whichever session_end events and disconnects race for a device; the step
\* that obtains a summary has removed the session.
C18_HandedAtMostOnce ==
    [][/\ \A i, j \in 1..Len(h_handed') :
             i # j => h_handed'[i] # h_handed'[j]
       /\ \A i, j \in 1..Len(db') :
             i # j => KeyOf(db'[i].row) # KeyOf(db'[j].row)
       /\ h_last'.handed # <<>>
          => /\ h_last'.dev \notin DOMAIN active_sessions'
             /\ h_handed' = Append(h_handed, KeyOf(h_last'.handed[1]))
             /\ KeyOf(h_last'.handed[1]) = Key(h_last'.dev, active_sessions[h_last'.dev])
       /\ h_last'.handed = <<>> => h_handed' = h_handed /\ db' = db]_vars

\* C18 witness: a connection that fed a device was closed after a
\* session_end on another connection had obtained the summary of the
\* session: the disconnect path finds no session and hands nothing over.
C18_Witness ==
    /\ h_last.kind = "ws_disconnect" /\ h_last.dev # NoDevice /\ ~h_last.had
    /\ h_last.handed = <<>>
    /\ Len(h_handed) = 1 /\ h_handed[1].dev = h_last.dev
    /\ Len(h_sent[h_last.dev]) = 0
    /\ pc[h_last.conn] = "closed"
    /\ \E c \in Conns \ {h_last.conn} : device_id[c] = h_last.dev

\* The counters of the session s agree with the readings h recorded in it.
Counted(s, h) ==
    LET window == IF s.beat_count < DequeMaxLen THEN s.beat_count ELSE DequeMaxLen
    IN  /\ s.beat_count = Len(h)
        /\ Len(s.ir_values) = window
        /\ Len(s.bpm_values) <= window

\* C19: in every state the beat_count of a session is the number of add_beat
\* calls completed since its start, the amplitude buffer has min(beat_count,
\* 1000) entries and the rate buffer at most as many; beat_count does not
\* decrease while the session lives; and total_beats of a summary is the
\* beat_count of the session, beyond 1000 too.
C19_BeatCountIsLifetimeCount ==
    [][/\ \A d \in DOMAIN active_sessions : Counted(active_sessions[d], h_rates[d])
       /\ \A d \in DOMAIN active_sessions' : Counted(active_sessions'[d], h_rates'[d])
       /\ \A d \in DOMAIN active_sessions \cap DOMAIN active_sessions' :
             active_sessions'[d].start_time = active_sessions[d].start_time
             => active_sessions'[d].beat_count >= active_sessions[d].beat_count
       /\ (h_last'.op = "end_session" /\ h_last'.result # <<>>)
          => /\ h_last'.result[1].total_beats =
                   active_sessions[h_last'.dev].beat_count
             /\ h_last'.result[1].total_beats = Len(h_rates[h_last'.dev])]_vars

\* C19 witness: end_session returned the summary of a session of 1005 beats:
\* total_beats is 1005 although the buffers hold at most 1000 values.
C19_Witness ==
    /\ h_last.op = "end_session" /\ h_last.result # <<>>
    /\ h_last.beats = 1005
    /\ h_last.result[1].total_beats = 1005
    /\ now = 1005

\* The message types whose branch assigns device_id (lines 224, 237, 252, 287).
TypedKinds == {"session_start", "heartbeat", "session_end", "get_session_info"}

\* The step processed a message of one of these types on connection c.
TypedOn(c) == h_last'.kind \in TypedKinds /\ h_last'.conn = c

\* The step ran the WebSocketDisconnect handler of connection c.
DisconnectOf(c) == h_last'.kind = "ws_disconnect" /\ h_last'.conn = c

\* The device bound to a connection is the device of the last typed message
\* processed on it, and none before the first.
BoundToLastTyped ==
    \A c \in Conns :
       /\ pc[c] = "new" => device_id[c] = NoDevice
       /\ TypedOn(c) => device_id'[c] = h_last'.dev
       /\ (~TypedOn(c) /\ pc'[c] # "closed") => device_id'[c] = device_id[c]

\* C20: the device bound to a connection is the device id of the most recent
\* session_start, heartbeat, session_end or get_session_info message
\* processed on it (none before the first); on disconnect the session of
\* exactly that device, and of no other device, leaves the registry.
C20_DisconnectFinalizesBoundDevice ==
    [][/\ BoundToLastTyped
       /\ \A c \in Conns :
             DisconnectOf(c) =>
                active_sessions' =
                   IF device_id[c] \in DOMAIN active_sessions
                   THEN DictDel(active_sessions, device_id[c])
                   ELSE active_sessions]_vars

\* C20, the binding alone.
C20_BoundToLastTypedMessage == [][BoundToLastTyped]_vars

\* C20, the disconnect of a connection bound to a non-empty device id whose
\* end_session returns: the session of that device leaves, the others stay.
C20_ReturningDisconnectFinalizes ==
    [][\A c \in Conns :
          (DisconnectOf(c) /\ Truthy(device_id[c]) /\ ~h_last'.raised) =>
             active_sessions' =
                IF device_id[c] \in DOMAIN active_sessions
                THEN DictDel(active_sessions, device_id[c])
                ELSE active_sessions]_vars

\* C20: the disconnect of one connection ended the session of the default
\* device, which had two beats, after three messages, while the other
\* connection is open, bound to the same device, and its peer is there.
C20_SharedDeviceReached ==
    \E c \in Conns, o \in Conns :
       /\ c # o
       /\ h_last.kind = "ws_disconnect" /\ h_last.conn = c
       /\ h_last.dev = DefaultDevice /\ h_last.had /\ h_last.beats = 2
       /\ h_last.result # <<>>
       /\ DefaultDevice \notin DOMAIN active_sessions
       /\ pc[o] = "open" /\ alive[o] /\ device_id[o] = DefaultDevice
       /\ now = MaxMsgs

====
